---- MODULE Spec2Model ----
(***************************************************************************)
(* A model of @hiudyy/import: the importer of src/src/importer.js (the     *)
(* virtual module registry, the manifest cache, the in-flight set and the  *)
(* asynchronous import functions) and the transport client of              *)
(* src/src/network.js (fetchWithRetry).                                     *)
(*                                                                         *)
(* JavaScript runs one callback at a time: an action of this model is one  *)
(* run-to-completion step, from the event that resumes the code (a call,   *)
(* the settlement of a fetch, the settlement of a chunk's promises) to the *)
(* next await that suspends on I/O or on child promises.                   *)
(***************************************************************************)
EXTENDS Integers, Sequences, FiniteSets, TLC

\* src/src/importer.js:28
MAX_CONCURRENT_DOWNLOADS == 5

(***************************************************************************)
(* The registry contents (what the network serves) and the calls made.     *)
(***************************************************************************)
\* Package names of the modelled registry / repositories.
Names == {"A", "B", "C", "W", "L1", "L2", "L3", "L4", "L5"}

Versions == {"latest", "1"}

Dep(n, v) == [name |-> n, version |-> v]

\* pkgJson.dependencies of each package, in Object.entries order, with the
\* version each entry resolves to (line 139).  A and B form a cycle; B also
\* depends on C, which is a leaf.  W depends on six leaves, which make two
\* chunks of its dependency loop.
Dependencies(n) ==
    CASE n = "A" -> << Dep("B", "latest") >>
      [] n = "B" -> << Dep("A", "latest"), Dep("C", "1") >>
      [] n = "W" -> << Dep("L1", "latest"), Dep("L2", "latest"),
                       Dep("L3", "latest"), Dep("L4", "latest"),
                       Dep("L5", "latest"), Dep("C", "1") >>
      [] OTHER   -> << >>


\* A specifier as parsePackageString returns it (source, name, version).
Specifier(src, n, v) == [source |-> src, name |-> n, version |-> v]

\* The key under which a top-level specifier's result is stored (line 306).
ModuleName(spec) == spec.name

\* Line 236: the storage path of a virtual module.
ModulePath(n) == << "/virtual_modules/", n, ".js" >>

\* Line 111: the manifest cache key `${name}@${version}`.
CacheKey(n, v) == << n, v >>

\* Number of importModules calls that may be in progress at the same time.
\* A call that has returned leaves its slot to a later call.
MaxBatches == 1

Batches == 1 .. MaxBatches

\* The history counter of successful manifest fetches saturates here.
FetchCap == 2

Min(a, b) == IF a < b THEN a ELSE b

(***************************************************************************)
(* State.                                                                  *)
(***************************************************************************)
VARIABLES
    virtualModules,         \* keys of the Map name -> path (line 16); the path is ModulePath(name)
    requireCache,           \* require.cache restricted to virtual paths
    packageMetadataCache,   \* keys of the manifest cache (line 19)
    importingDependencies,  \* Set of names (line 22)
    failedImports,          \* keys of the Map name -> message (line 25)
    reg,                    \* the suspended importFromRegistry call of each name
    batch,                  \* the importModules calls and their chunk items
    manifestFetches,        \* history: manifests fetched from the network since the last clear
    fetch,                  \* one fetchWithRetry call: its options and its promise
    requests,               \* the https.get requests that call issued, in order
    timers,                 \* the retries scheduled by setTimeout and not yet run
    json,                   \* the fetchJson call that awaits the fetchWithRetry call, if any
    input,                  \* a specifier string handed to parsePackageString
    parsed                  \* what became of it: the parse result and the dispatch

importerVars == << virtualModules, requireCache, packageMetadataCache,
                   importingDependencies, failedImports, reg, batch,
                   manifestFetches >>

fetchVars == << fetch, requests, timers, json >>

parseVars == << input, parsed >>

vars == << importerVars, fetchVars, parseVars >>

\* The state as one record, threaded through the synchronous code.
State == [ vm |-> virtualModules, rc |-> requireCache,
           cache |-> packageMetadataCache, inflight |-> importingDependencies,
           failed |-> failedImports, reg |-> reg, batch |-> batch,
           fetches |-> manifestFetches ]

Commit(next) ==
  \E s \in {next} :
    /\ virtualModules' = s.vm
    /\ requireCache' = s.rc
    /\ packageMetadataCache' = s.cache
    /\ importingDependencies' = s.inflight
    /\ failedImports' = s.failed
    /\ reg' = s.reg
    /\ batch' = s.batch
    /\ manifestFetches' = s.fetches
    /\ UNCHANGED << fetchVars, parseVars >>

\* History: how many times, up to FetchCap, the manifest of a registry
\* package (by name and version) and the manifest on branch main of a
\* repository (by name) was fetched with success.
NoFetches == [registry |-> [k \in Names \X Versions |-> 0],
              github |-> [n \in Names |-> 0]]

\* Who awaits an importFromRegistry call: the wrapper of a top-level item
\* (lines 302-322) or the wrapper of a dependency of another package
\* (lines 137-146).
Top(b, i) == [kind |-> "top", b |-> b, i |-> i, name |-> "-"]
DepOf(p) == [kind |-> "dep", b |-> 0, i |-> 0, name |-> p]
NoParent == [kind |-> "none", b |-> 0, i |-> 0, name |-> "-"]

\* The suspended importFromRegistry call of a name (a task).  `root` is
\* history: the importModules call the task descends from.
\* `reload` is history too: the name was registered when the task began.
IdleTask == [pc |-> "idle", version |-> "latest", source |-> "npm",
             parent |-> NoParent, root |-> 0, next |-> 0, pending |-> {},
             reload |-> FALSE]

\* A call of importModules: its argument, its loop index, the state of each
\* item and the `results` object it returns (a value per module name).
\* History: `warned`, the names logged at line 102 while the call was
\* running, and `threw`, the items whose import function threw.
IdleBatch == [status |-> "idle", mods |-> << >>, next |-> 0, items |-> << >>,
              results |-> [k \in {} |-> "undefined"], warned |-> {},
              threw |-> {}]

\* The call a parent belongs to.
RootOf(s, parent) ==
    IF parent.kind = "top" THEN parent.b ELSE s.reg[parent.name].root

\* An item of a call.  `via` is history: how its import function went, by a
\* resolution of its own ("task", or "reload" when the name was registered
\* as it began), or by returning at once because the name was registered
\* ("loaded") or in the in-flight set ("circular").
\* `error` is what importFromGitHub holds in its variable `error` (line 197)
\* and, once the item has failed, the error it threw: "fetch" for the error
\* of a failed fetch, "no content" for the Error of line 215, "compile" for
\* the Error of line 245.
NewItem == [pc |-> "new", branch |-> "main", via |-> "none", error |-> "none"]

(***************************************************************************)
(* importFromRegistry (lines 91-178) and its callers' wrappers.            *)
(***************************************************************************)
\* The check of line 96 left out.
NeverLoaded(s, n) == FALSE

\* Line 96: the name is already registered.
AlreadyLoaded(s, n) == n \in s.vm

\* The check of line 101 seeing only the names that are being resolved as a
\* dependency: a name being resolved for an item of a call passes it.
InFlightAsDependency(s, n) ==
    n \in s.inflight /\ s.reg[n].parent.kind = "dep"

\* Line 101: the name is in the in-flight set.
InFlight(s, n) == n \in s.inflight

\* The cache of lines 112-114 never consulted.
CacheMiss(s, n, v) == FALSE

\* Lines 112-114: the manifest is taken from the cache, no request is made.
CacheHit(s, n, v) == CacheKey(n, v) \in s.cache

\* The wrapper without its catch block: the rejection reaches
\* Promise.allSettled.
TopLevelRethrows(didThrow) == IF didThrow THEN "rejected" ELSE "ok"

\* Lines 319-322: what the wrapper of a top-level item reports to
\* Promise.allSettled: {success: true} when the import returned,
\* {success: false} when it threw.
TopLevelOutcome(didThrow) == IF didThrow THEN "fail" ELSE "ok"

\* Lines 311-322: a top-level item settles.  On a normal return the result is
\* stored under the module name.
ItemSettled(s, b, i, didThrow) ==
    LET spec == s.batch[b].mods[i]
    IN [s EXCEPT !.batch[b].items[i].pc = TopLevelOutcome(didThrow),
                 !.batch[b].results =
                     IF didThrow THEN @
                     ELSE [k \in DOMAIN @ \cup {ModuleName(spec)} |-> "undefined"],
                 !.batch[b].threw = IF didThrow THEN @ \cup {i} ELSE @]

\* The wrapper without its catch block: the failure of a dependency rejects
\* Promise.allSettled's caller, the parent, which fails in its turn.
DependencyFailureFatal(s, p, d, didThrow) ==
    IF didThrow
    THEN [s EXCEPT !.failed = @ \cup {d, p},
                   !.inflight = @ \ {p},
                   !.reg[p] = IdleTask]
    ELSE [s EXCEPT !.reg[p].pending = @ \ {d}]

\* Lines 141-146: a dependency's import settles in the wrapper its parent
\* package p awaits; a failure is recorded and swallowed.
DependencySettled(s, p, d, didThrow) ==
    [s EXCEPT !.failed = IF didThrow THEN @ \cup {d} ELSE @,
              !.reg[p].pending = @ \ {d}]

\* The call importFromRegistry(n) settles and its awaiter resumes.
Settle(s, parent, n, didThrow) ==
    IF parent.kind = "top"
    THEN ItemSettled(s, parent.b, parent.i, didThrow)
    ELSE DependencySettled(s, parent.name, n, didThrow)

\* The catch block without the finally block of lines 175-177: the name of
\* a failed import stays in the in-flight set.
FailWithoutFinally(s, n) ==
    LET parent == s.reg[n].parent
        s1 == [s EXCEPT !.failed = @ \cup {n},
                        !.reg[n] = IdleTask]
    IN Settle(s1, parent, n, TRUE)

\* Lines 171-177: the catch and finally blocks, then the rejection reaches
\* the awaiter.
RegistryFail(s, n) ==
    LET parent == s.reg[n].parent
        s1 == [s EXCEPT !.failed = @ \cup {n},
                        !.inflight = @ \ {n},
                        !.reg[n] = IdleTask]
    IN Settle(s1, parent, n, TRUE)

\* Lines 248-249: importModuleFiles registers the compiled module.
Register(s, n) ==
    [s EXCEPT !.rc = @ \cup {ModulePath(n)},
              !.vm = @ \cup {n}]

\* Lines 158-160 and 175-177: the entry file compiled; the finally block,
\* then the awaiter resumes.
RegistrySucceed(s, n) ==
    LET parent == s.reg[n].parent
        s1 == Register(s, n)
        s2 == [s1 EXCEPT !.inflight = @ \ {n}, !.reg[n] = IdleTask]
    IN Settle(s2, parent, n, FALSE)

\* The skip of line 103 without the warning.
SkipSilently(s, n) == s

\* Line 102: Logger.warn(`Circular dependency detected for ${name}, skipping`).
\* The log is global: every call that is running sees the line.
WarnCircular(s, n) ==
    [s EXCEPT !.batch = [b \in Batches |->
                            IF s.batch[b].status = "running"
                            THEN [s.batch[b] EXCEPT !.warned = @ \cup {n}]
                            ELSE s.batch[b]]]

RECURSIVE importFromRegistry(_, _, _, _, _)
RECURSIVE DependencyLoop(_, _)
RECURSIVE DispatchDependencies(_, _, _, _)

\* The loop without chunks: every dependency is dispatched at once.
DispatchAllAtOnce(s, p) ==
    LET deps == Dependencies(p)
        i == s.reg[p].next
    IN IF i >= Len(deps)
       THEN [s EXCEPT !.reg[p].pc = "entry"]
       ELSE DispatchDependencies(
                [s EXCEPT !.reg[p].pc = "deps",
                          !.reg[p].next = Len(deps),
                          !.reg[p].pending = {}],
                p, i + 1, Len(deps))

\* The loop without `await Promise.allSettled(promises)` (line 149): the
\* first chunk is dispatched and importModuleFiles is called at once.
EntryWithoutAwait(s, p) ==
    LET deps == Dependencies(p)
        s1 == DispatchDependencies(
                  [s EXCEPT !.reg[p].pc = "deps",
                            !.reg[p].next = Len(deps),
                            !.reg[p].pending = {}],
                  p, 1, Min(MAX_CONCURRENT_DOWNLOADS, Len(deps)))
    IN [s1 EXCEPT !.reg[p].pc = "entry"]

\* Lines 135-158, from the chunk at index reg[p].next: dispatch the next
\* chunk of dependencies and await it, or, after the last chunk, call
\* importModuleFiles, which suspends on the fetch of the entry file.
DependencyLoop(s, p) ==
    LET deps == Dependencies(p)
        i == s.reg[p].next
    IN IF i >= Len(deps)
       THEN [s EXCEPT !.reg[p].pc = "entry"]
       ELSE DispatchDependencies(
                [s EXCEPT !.reg[p].pc = "deps",
                          !.reg[p].next = i + MAX_CONCURRENT_DOWNLOADS,
                          !.reg[p].pending = {}],
                p, i + 1, Min(i + MAX_CONCURRENT_DOWNLOADS, Len(deps)))

\* Lines 137-147: chunk.map starts the import of each dependency of the
\* chunk in order; each runs synchronously to its first await.
DispatchDependencies(s, p, k, last) ==
    IF k > last THEN s
    ELSE LET d == Dependencies(p)[k]
             c == importFromRegistry(s, d.name, d.version, s.reg[p].source, DepOf(p))
             s1 == IF c.r = "task"
                   THEN [c.s EXCEPT !.reg[p].pending = @ \cup {d.name}]
                   ELSE c.s
         IN DispatchDependencies(s1, p, k + 1, last)

\* Lines 91-127, to the first await: the call returns at once (r is
\* "loaded", line 98, or "circular", line 103) or suspends (r is "task").
importFromRegistry(s, n, v, src, parent) ==
    IF AlreadyLoaded(s, n) THEN [s |-> s, r |-> "loaded"]
    ELSE IF InFlight(s, n)
    THEN [s |-> WarnCircular(s, n), r |-> "circular"]
    ELSE LET s1 == [s EXCEPT !.inflight = @ \cup {n},
                             !.reg[n] = [pc |-> "manifest", version |-> v,
                                         source |-> src, parent |-> parent,
                                         root |-> RootOf(s, parent),
                                         next |-> 0, pending |-> {},
                                         reload |-> n \in s.vm]]
         IN IF CacheHit(s1, n, v)
            THEN [s |-> DependencyLoop(s1, n), r |-> "task"]
            ELSE [s |-> s1, r |-> "task"]

\* Line 126: the fetched manifest is stored in the cache.
StoreManifest(s, n) ==
    LET key == CacheKey(n, s.reg[n].version)
    IN [s EXCEPT !.cache = @ \cup {key},
                 !.fetches.registry[key] = Min(@ + 1, FetchCap)]

(***************************************************************************)
(* importFromGitHub (lines 184-225).                                       *)
(***************************************************************************)
\* Lines 187-203, to the first await: returns at once when the name is
\* registered, else suspends on the fetch of the manifest of branch main.
importFromGitHub(s, b, i) ==
    LET n == s.batch[b].mods[i].name
    IN IF AlreadyLoaded(s, n)
       THEN ItemSettled([s EXCEPT !.batch[b].items[i].via = "loaded"], b, i, FALSE)
       ELSE [s EXCEPT !.batch[b].items[i] =
                          [pc |-> "ghManifest", branch |-> "main",
                           via |-> IF n \in s.vm THEN "reload" ELSE "task",
                           error |-> "none"]]

\* Lines 220-224: the catch block, then the rejection reaches the wrapper.
GitHubFail(s, b, i, err) ==
    LET n == s.batch[b].mods[i].name
    IN ItemSettled([s EXCEPT !.failed = @ \cup {n},
                             !.batch[b].items[i].error = err], b, i, TRUE)

\* Lines 208-216: a fetch of the branch failed; try master after main, and
\* throw when no branch is left.
GitHubNextBranch(s, b, i) ==
    IF s.batch[b].items[i].branch = "main"
    THEN [s EXCEPT !.batch[b].items[i].pc = "ghManifest",
                   !.batch[b].items[i].branch = "master",
                   !.batch[b].items[i].error = "fetch"]
    ELSE GitHubFail(s, b, i, "fetch")

(***************************************************************************)
(* importModules (lines 295-346).                                          *)
(***************************************************************************)
\* Lines 304-318: one item of a chunk, run to its first await.
ImportItem(s, b, i) ==
    LET spec == s.batch[b].mods[i]
    IN IF spec.source = "github"
       THEN importFromGitHub(s, b, i)
       ELSE LET c == importFromRegistry(s, spec.name, spec.version,
                                        spec.source, Top(b, i))
                s1 == [c.s EXCEPT !.batch[b].items[i].via =
                                      IF c.r = "task" /\ spec.name \in s.vm
                                      THEN "reload" ELSE c.r]
            IN IF c.r = "task"
               THEN [s1 EXCEPT !.batch[b].items[i].pc = "reg"]
               ELSE ItemSettled(s1, b, i, FALSE)

RECURSIVE DispatchItems(_, _, _, _)
\* Lines 301-323: chunk.map starts every item of the chunk in order.
DispatchItems(s, b, k, last) ==
    IF k > last THEN s
    ELSE DispatchItems(ImportItem(s, b, k), b, k + 1, last)

\* Lines 300-345, from the chunk at index batch[b].next: dispatch the next
\* chunk and await it, or return the results after the last chunk.
BatchLoop(s, b) ==
    LET mods == s.batch[b].mods
        i == s.batch[b].next
    IN IF i >= Len(mods)
       THEN [s EXCEPT !.batch[b].status = "done"]
       ELSE DispatchItems(
                [s EXCEPT !.batch[b].next = i + MAX_CONCURRENT_DOWNLOADS],
                b, i + 1, Min(i + MAX_CONCURRENT_DOWNLOADS, Len(mods)))

\* An item of a call is awaited by Promise.allSettled.
ItemPending(it) == it.pc \in {"reg", "ghManifest", "ghEntry"}

\* clearVirtualModules emptying the in-flight set as well.
ClearStateAndInFlight(s) ==
    [s EXCEPT !.rc = @ \ {ModulePath(n) : n \in s.vm},
              !.vm = {},
              !.cache = {},
              !.inflight = {},
              !.failed = {},
              !.fetches = NoFetches]

\* clearVirtualModules without line 277, packageMetadataCache.clear().
ClearStateKeepsManifests(s) ==
    [s EXCEPT !.rc = @ \ {ModulePath(n) : n \in s.vm},
              !.vm = {},
              !.failed = {}]

\* clearVirtualModules without the loop of lines 272-274: the compiled
\* modules stay in require.cache.
ClearStateKeepsRequireCache(s) ==
    [s EXCEPT !.vm = {},
              !.cache = {},
              !.failed = {},
              !.fetches = NoFetches]

\* Lines 271-279: clearVirtualModules.
ClearState(s) ==
    [s EXCEPT !.rc = @ \ {ModulePath(n) : n \in s.vm},
              !.vm = {},
              !.cache = {},
              !.failed = {},
              !.fetches = NoFetches]

(***************************************************************************)
(* The calls made by the program's user.                                   *)
(***************************************************************************)
NpmA == Specifier("npm", "A", "latest")
YarnB == Specifier("yarn", "B", "latest")
NpmC == Specifier("npm", "C", "1")
GitHubC == Specifier("github", "C", "latest")

\* The arguments of importModules: a package of a dependency cycle; a
\* registry package and a repository of the same name; a package and, beside
\* it, one of its dependencies; six items, which make two chunks.
BatchInputs ==
    { << NpmA >>,
      << NpmC, GitHubC >>,
      << YarnB, NpmC >>,
      << NpmC, NpmC, NpmC, NpmC, NpmC, NpmC >> }

(***************************************************************************)
(* Initial state: the module has just been loaded.                         *)
(***************************************************************************)
\* A call made while another call is running imports the package of the
\* cycle, which reaches every registry package.
OverlapInputs == { << NpmA >> }

InputsOf(b) == IF b = 1 THEN BatchInputs ELSE OverlapInputs

ImporterInit ==
    /\ virtualModules = {}
    /\ requireCache = {}
    /\ packageMetadataCache = {}
    /\ importingDependencies = {}
    /\ failedImports = {}
    /\ reg = [n \in Names |-> IdleTask]
    /\ batch = [b \in Batches |-> IdleBatch]
    /\ manifestFetches = NoFetches

(***************************************************************************)
(* Actions.                                                                *)
(***************************************************************************)
\* importModules(mods) is called (lines 295-325): the failure list is
\* cleared and the first chunk dispatched.  The call takes the first free
\* slot.
ImportModules(b, mods) ==
    /\ batch[b].status = "idle"
    /\ \A c \in Batches : c < b => batch[c].status # "idle"
    /\ Commit(BatchLoop(
           [State EXCEPT !.failed = {},
                         !.batch[b] = [IdleBatch EXCEPT
                                         !.status = "running", !.mods = mods,
                                         !.items = [k \in 1 .. Len(mods) |-> NewItem]]],
           b))

\* Calls are anonymous: when the call in slot b is gone, the calls in the
\* slots after it move down one slot, so that slots are in starting order.
FreeSlot(s, b) ==
    [s EXCEPT !.batch = [c \in Batches |->
                            IF c < b THEN s.batch[c]
                            ELSE IF c < MaxBatches THEN s.batch[c + 1]
                            ELSE IdleBatch],
              !.reg = [n \in Names |->
                          [s.reg[n] EXCEPT
                             !.root = IF @ > b THEN @ - 1 ELSE @,
                             !.parent.b = IF @ > b THEN @ - 1 ELSE @]]]

\* The promise of a call has resolved and its caller has taken the results.
Returned(b) ==
    /\ batch[b].status = "done"
    /\ Commit(FreeSlot(State, b))

\* Promise.allSettled of the current chunk of a call resolves (line 325).
ChunkSettled(b) ==
    /\ batch[b].status = "running"
    /\ \A k \in 1 .. Len(batch[b].items) : ~ItemPending(batch[b].items[k])
    /\ Commit(BatchLoop(State, b))

\* fetchJson(packageUrl) settles (lines 120-127).
ManifestResponse(n, ok) ==
    /\ reg[n].pc = "manifest"
    /\ Commit(IF ok THEN DependencyLoop(StoreManifest(State, n), n)
              ELSE [State EXCEPT !.reg[n].pc = "fallback"])

\* fetchJson(registryUrl), the fallback, settles (lines 124-127).
FallbackResponse(n, ok) ==
    /\ reg[n].pc = "fallback"
    /\ Commit(IF ok THEN DependencyLoop(StoreManifest(State, n), n)
              ELSE RegistryFail(State, n))

\* Promise.allSettled of a chunk of dependencies resolves (line 149).
DependenciesSettled(n) ==
    /\ reg[n].pc = "deps"
    /\ reg[n].pending = {}
    /\ Commit(DependencyLoop(State, n))

\* The fetch of the entry file settles in importModuleFiles (lines 235-249):
\* the fetch failed, the code does not compile, or the module is registered.
EntryResponse(n, outcome) ==
    /\ reg[n].pc = "entry"
    /\ Commit(IF outcome = "ok" THEN RegistrySucceed(State, n)
              ELSE RegistryFail(State, n))

\* fetchJson of a branch's package.json settles (lines 203-211).
GitHubManifestResponse(b, i, ok) ==
    /\ batch[b].status = "running"
    /\ i \in 1 .. Len(batch[b].items)
    /\ batch[b].items[i].pc = "ghManifest"
    /\ Commit(IF ok THEN [State EXCEPT
                             !.batch[b].items[i].pc = "ghEntry",
                             !.fetches.github[batch[b].mods[i].name] =
                                 IF batch[b].items[i].branch = "main"
                                 THEN Min(@ + 1, FetchCap) ELSE @]
              ELSE GitHubNextBranch(State, b, i))

\* fetchWithRetry of a branch's entry file settles (lines 206-219): the fetch
\* failed, the file is empty (line 214: `!content`, thrown is `error` or the
\* Error of line 215), it does not compile, or it is registered.
GitHubEntryResponse(b, i, outcome) ==
    /\ batch[b].status = "running"
    /\ i \in 1 .. Len(batch[b].items)
    /\ batch[b].items[i].pc = "ghEntry"
    /\ Commit(CASE outcome = "neterr" -> GitHubNextBranch(State, b, i)
                [] outcome = "empty" ->
                       GitHubFail(State, b, i,
                                  IF batch[b].items[i].error # "none"
                                  THEN batch[b].items[i].error
                                  ELSE "no content")
                [] outcome = "badcode" -> GitHubFail(State, b, i, "compile")
                [] OTHER -> ItemSettled(
                       Register(State, batch[b].mods[i].name), b, i, FALSE))

\* clearVirtualModules() is called (lines 271-279).
ClearVirtualModules ==
    Commit(ClearState(State))

(***************************************************************************)
(* fetchWithRetry (src/src/network.js, lines 24-87).                       *)
(*                                                                         *)
(* One call is modelled.  Every https.get request may raise the events the *)
(* code listens to: a response (whose status is below 400, and whose body  *)
(* then ends, or not), 'timeout' and 'error'.  The 'timeout' handler calls *)
(* req.destroy(); when no response has been received yet, Node then emits  *)
(* 'error' (socket hang up) on the same request.                           *)
(***************************************************************************)
\* src/src/network.js:14
INITIAL_RETRY_DELAY == 1000
\* src/src/network.js:15
MAX_RETRY_DELAY == 10000
\* src/src/network.js:16
BACKOFF_FACTOR == 2

\* The largest value of the option `retries` that is modelled.
MaxRetries == 3

\* The model follows a call up to this many requests.
MaxRequests == 4

Url == "url"

FetchOptions ==
    [ retries : 1 .. MaxRetries,
      initialDelay : {INITIAL_RETRY_DELAY, 3 * INITIAL_RETRY_DELAY},
      maxDelay : {1500, MAX_RETRY_DELAY},
      backoffFactor : {1, BACKOFF_FACTOR} ]

DefaultOptions ==
    [ retries |-> 3, initialDelay |-> INITIAL_RETRY_DELAY,
      maxDelay |-> MAX_RETRY_DELAY, backoffFactor |-> BACKOFF_FACTOR ]

HttpStatusCodes == {200, 404, 500}

NoError == [statusCode |-> -1, url |-> ""]

\* Lines 4-11: a NetworkError with its statusCode and url.
NetworkError(code, url) == [statusCode |-> code, url |-> url]

IdleFetch == [status |-> "idle", options |-> DefaultOptions, value |-> 0,
              error |-> NoError, settledBy |-> 0]

\* An Error object as a catch block sees it: the name of its class and,
\* on a NetworkError, statusCode and url (-1 and "" stand for undefined).
ErrorObject(name, code, url) == [name |-> name, statusCode |-> code, url |-> url]

NoErrorObject == ErrorObject("", -1, "")

\* Line 100: new Error(`Invalid JSON response from ${url}: ...`).
InvalidJsonError == ErrorObject("Error", -1, "")

IdleJson == [status |-> "idle", error |-> NoErrorObject]

\* Line 37: the request made by attempt(attemptsLeft, delay).  `waited` is
\* history: the sum of the setTimeout delays that led to this attempt.
Attempt(left, delay, waited) ==
    [left |-> left, delay |-> delay, waited |-> waited, state |-> "open",
     code |-> 0]

\* A retry that waits the same delay again.
SameDelay(delay, o) == delay

\* Lines 46, 66, 76: the delay handed to the next attempt.
NextDelay(delay, o) == Min(delay * o.backoffFactor, o.maxDelay)

\* Lines 48, 68, 78: setTimeout(() => attempt(attemptsLeft - 1, nextDelay), delay).
ScheduleRetry(tm, rq, r, by, o) ==
    tm \cup { [from |-> r, by |-> by, left |-> rq[r].left - 1,
               delay |-> NextDelay(rq[r].delay, o),
               waited |-> rq[r].waited + rq[r].delay] }

\* Lines 45, 65, 75: another attempt is made while attemptsLeft > 1.
MayRetry(left) == left > 1

\* Lines 51, 71, 81: reject(error); a settled promise stays as it is.
Reject(f, r, code) ==
    IF f.status = "pending"
    THEN [f EXCEPT !.status = "rejected", !.error = NetworkError(code, Url),
                   !.settledBy = r]
    ELSE f

\* Line 58: resolve(body); a settled promise stays as it is.
Resolve(f, r) ==
    IF f.status = "pending"
    THEN [f EXCEPT !.status = "resolved", !.value = r, !.settledBy = r]
    ELSE f

\* One failure handler runs for request r (lines 45-52, 65-71, 75-81).
OnFailure(x, r, code, by) ==
    IF MayRetry(x.requests[r].left)
    THEN [x EXCEPT !.timers = ScheduleRetry(@, x.requests, r, by, x.fetch.options)]
    ELSE [x EXCEPT !.fetch = Reject(@, r, code)]

FetchState == [fetch |-> fetch, requests |-> requests, timers |-> timers,
               json |-> json]

CommitFetch(next) ==
  \E x \in {next} :
    /\ fetch' = x.fetch
    /\ requests' = x.requests
    /\ timers' = x.timers
    /\ json' = x.json
    /\ UNCHANGED << importerVars, parseVars >>

FetchInit ==
    /\ fetch = IdleFetch
    /\ requests = << >>
    /\ timers = {}
    /\ json = IdleJson

\* fetchWithRetry(url, options) is called (lines 24-33, 85).
FetchWithRetry(o) ==
    /\ fetch.status = "idle"
    /\ CommitFetch([fetch |-> [IdleFetch EXCEPT !.status = "pending", !.options = o],
                    requests |-> << Attempt(o.retries, o.initialDelay, 0) >>,
                    timers |-> {},
                    json |-> IdleJson])

\* fetchJson(url, options) is called (lines 95-96): it calls fetchWithRetry
\* and awaits it.
FetchJson(o) ==
    /\ fetch.status = "idle"
    /\ CommitFetch([fetch |-> [IdleFetch EXCEPT !.status = "pending", !.options = o],
                    requests |-> << Attempt(o.retries, o.initialDelay, 0) >>,
                    timers |-> {},
                    json |-> [IdleJson EXCEPT !.status = "awaiting"]])

\* fetchJson resumes (lines 96-101): the rejection of fetchWithRetry goes
\* through; the body is returned parsed, or JSON.parse throws and a new
\* Error is thrown in its place.
FetchJsonResumes(parseable) ==
    /\ json.status = "awaiting"
    /\ fetch.status \in {"resolved", "rejected"}
    /\ CommitFetch([FetchState EXCEPT !.json =
           IF fetch.status = "rejected"
           THEN [status |-> "threw",
                 error |-> ErrorObject("NetworkError", fetch.error.statusCode,
                                       fetch.error.url)]
           ELSE IF parseable
           THEN [status |-> "returned", error |-> NoErrorObject]
           ELSE [status |-> "threw", error |-> InvalidJsonError]])

\* The response callback runs (lines 37-59); a body below status 400 is
\* read to its end.
HttpResponse(r, code) ==
    /\ r \in 1 .. Len(requests)
    /\ requests[r].state = "open"
    /\ CommitFetch(
         IF code >= 400
         THEN OnFailure([FetchState EXCEPT !.requests[r].state = "failed",
                                           !.requests[r].code = code],
                        r, code, "status")
         ELSE [FetchState EXCEPT !.requests[r].state = "ok",
                                 !.requests[r].code = code,
                                 !.fetch = Resolve(@, r)])

\* The 'timeout' handler runs (lines 61-72).  beforeResponse: no response
\* had been received, so that req.destroy() makes the request emit 'error'
\* and the 'error' handler (lines 74-82) runs too.
RequestTimeout(r, beforeResponse) ==
    /\ r \in 1 .. Len(requests)
    /\ requests[r].state = "open"
    /\ LET x1 == OnFailure([FetchState EXCEPT !.requests[r].state = "failed",
                                              !.requests[r].code = 408],
                           r, 408, "timeout")
       IN CommitFetch(IF beforeResponse THEN OnFailure(x1, r, 0, "error") ELSE x1)

\* The 'error' handler runs for a socket error (lines 74-82).
RequestError(r) ==
    /\ r \in 1 .. Len(requests)
    /\ requests[r].state = "open"
    /\ CommitFetch(OnFailure([FetchState EXCEPT !.requests[r].state = "failed",
                                                !.requests[r].code = 0],
                             r, 0, "error"))

\* A setTimeout callback runs: attempt(attemptsLeft - 1, nextDelay).
RetryTimer(t) ==
    /\ t \in timers
    /\ Len(requests) < MaxRequests
    /\ CommitFetch([FetchState EXCEPT
                      !.requests = Append(@, Attempt(t.left, t.delay, t.waited)),
                      !.timers = @ \ {t}])


NextFetch ==
    \/ \E o \in FetchOptions : FetchWithRetry(o)
    \/ \E o \in FetchOptions : FetchJson(o)
    \/ \E parseable \in BOOLEAN : FetchJsonResumes(parseable)
    \/ \E r \in 1 .. MaxRequests, code \in HttpStatusCodes : HttpResponse(r, code)
    \/ \E r \in 1 .. MaxRequests, early \in BOOLEAN : RequestTimeout(r, early)
    \/ \E r \in 1 .. MaxRequests : RequestError(r)
    \/ \E t \in timers : RetryTimer(t)

(***************************************************************************)
(* parsePackageString (src/src/importer.js, lines 45-84) and the dispatch  *)
(* of a specifier by importModules (lines 304-317).                        *)
(*                                                                         *)
(* A string is a sequence of characters.  The prefixes 'npm:', 'yarn:' and *)
(* 'github:' are written as one character each: the strings of the model  *)
(* hold no other ':'.                                                      *)
(***************************************************************************)
\* Longest word (a name, an owner, a version number) in a specifier.
MaxWord == 2

Letters == {"a", "b"}

Digits == {"1"}

Prefixes == {"npm:", "yarn:", "github:"}

\* The words of at most MaxWord characters over an alphabet.
WordsOver(alphabet) ==
    UNION { [1 .. k -> alphabet] : k \in 1 .. MaxWord }

Words == WordsOver(Letters)

\* Version tokens: a version number, alone or after a range operator.
VersionTokens ==
    WordsOver(Digits) \cup { << op >> \o v : op \in {"^", "~"}, v \in WordsOver(Digits) }

\* name and name@version.
UnscopedInputs ==
    Words \cup { w \o << "@" >> \o v : w \in Words, v \in VersionTokens }

\* @scope/pkg and @scope/pkg@version.
ScopedInputs ==
    LET scoped == { << "@" >> \o s \o << "/" >> \o w : s \in Words, w \in {<< "a" >>} }
    IN scoped \cup { n \o << "@" >> \o v : n \in scoped, v \in {<< "1" >>, << "^", "1" >>} }

\* github:owner/repo, alias@github:owner/repo and alias@source:name.
PrefixedInputs ==
    LET repos == { o \o << "/" >> \o r : o \in {<< "a" >>, << "b" >>}, r \in {<< "a" >>} }
    IN { << "github:" >> \o r : r \in repos }
       \cup { w \o << "@", "github:" >> \o r : w \in {<< "b" >>}, r \in repos }
       \cup { a \o << "@", src >> \o w :
                 a \in {<< "b" >>}, src \in {"npm:", "yarn:"}, w \in Words }

ParseInputs == UnscopedInputs \cup ScopedInputs \cup PrefixedInputs

\* String.prototype.indexOf for one character: 0 when it is absent.
IndexOf(str, c) ==
    IF \E i \in 1 .. Len(str) : str[i] = c
    THEN CHOOSE i \in 1 .. Len(str) :
            str[i] = c /\ \A j \in 1 .. i - 1 : str[j] # c
    ELSE 0

RECURSIVE SplitOn(_, _)
\* String.prototype.split(sep) for a separator of one character.
SplitOn(str, sep) ==
    LET i == IndexOf(str, sep)
    IN IF i = 0 THEN << str >>
       ELSE << SubSeq(str, 1, i - 1) >> \o SplitOn(SubSeq(str, i + 1, Len(str)), sep)

RECURSIVE JoinWith(_, _)
\* Array.prototype.join(sep).
JoinWith(pieces, sep) ==
    IF pieces = << >> THEN << >>
    ELSE IF Len(pieces) = 1 THEN pieces[1]
    ELSE pieces[1] \o << sep >> \o JoinWith(Tail(pieces), sep)

\* The default of line 49.
Latest == << "latest" >>

\* result.alias is not set.
Undefined == << "undefined" >>

\* Line 65: pkgSpec.startsWith('npm:') || ... 'github:' || ... 'yarn:'.
StartsWithPrefix(str) == str # << >> /\ Head(str) \in Prefixes

\* Line 67: pkgSpec.substring(0, pkgSpec.indexOf(':')).
SourceOf(prefix) ==
    CASE prefix = "npm:" -> "npm"
      [] prefix = "yarn:" -> "yarn"
      [] OTHER -> "github"

NotRangeOperator(c) == c \notin {"^", "~"}

\* The version left as it was typed.
KeepVersion(version) == version

\* Lines 79-81: result.version.replace(/[\^~]/g, '') unless it is 'latest'.
CleanVersion(version) ==
    IF version # Latest THEN SelectSeq(version, NotRangeOperator) ELSE version

\* Lines 45-84.
parsePackageString(str) ==
    LET pieces == SplitOn(str, "@")
        alias == pieces[1]
        pkgSpec == JoinWith(Tail(pieces), "@")
        result == [name |-> << >>, version |-> Latest, source |-> "npm",
                   alias |-> Undefined, originalName |-> str]
    IN IF pkgSpec = << >>
       THEN [result EXCEPT !.name = alias]
       ELSE LET r == IF StartsWithPrefix(pkgSpec)
                     THEN [result EXCEPT !.name = Tail(pkgSpec),
                                         !.source = SourceOf(Head(pkgSpec)),
                                         !.alias = alias]
                     ELSE IF alias # << >> /\ Head(alias) = "@"
                     THEN [result EXCEPT !.name = alias \o << "@" >> \o pkgSpec]
                     ELSE [result EXCEPT !.name = alias, !.version = pkgSpec]
            IN [r EXCEPT !.version = CleanVersion(@)]

\* Line 185: repo.replace('github:', ''), which removes the first 'github:'.
RemoveGitHubPrefix(str) ==
    LET i == IndexOf(str, "github:")
    IN IF i = 0 THEN str
       ELSE SubSeq(str, 1, i - 1) \o SubSeq(str, i + 1, Len(str))

\* Nothing dispatched.
NoDispatch == [path |-> "none", source |-> "", owner |-> << >>, name |-> << >>,
               version |-> << >>]

\* Lines 304-317 and the first lines of the function called, which is handed
\* the specifier as it was typed: importFromRegistry parses it again
\* (lines 92-93), importFromGitHub splits it at '/' (line 185).
DispatchOf(mod) ==
    LET p == parsePackageString(mod)
        again == parsePackageString(mod)
        registry(source) ==
            [path |-> "registry", source |-> source, owner |-> << >>,
             name |-> again.name, version |-> again.version]
        parts == SplitOn(RemoveGitHubPrefix(mod), "/")
    IN CASE p.source \in {"npm", "yarn"} -> registry(p.source)
         [] p.source = "github" ->
               [path |-> "github", source |-> "github", owner |-> parts[1],
                name |-> IF Len(parts) > 1 THEN parts[2] ELSE Undefined,
                version |-> << >>]
         [] OTHER -> registry("npm")

NotParsed == [stage |-> "none",
              result |-> [name |-> << >>, version |-> << >>, source |-> "",
                          alias |-> << >>, originalName |-> << >>],
              dispatch |-> NoDispatch]

\* No specifier is under study.
ParseInit ==
    /\ input = << >>
    /\ parsed = NotParsed

\* parsePackageString(input) returns.
ParsePackageString ==
    /\ parsed.stage = "none"
    /\ parsed' = [parsed EXCEPT !.stage = "parsed",
                                !.result = parsePackageString(input)]
    /\ UNCHANGED << importerVars, fetchVars, input >>

\* The wrapper of importModules reaches the import function for `input`.
DispatchModule ==
    /\ parsed.stage = "parsed"
    /\ parsed' = [parsed EXCEPT !.stage = "dispatched",
                                !.dispatch = DispatchOf(input)]
    /\ UNCHANGED << importerVars, fetchVars, input >>

NextParse ==
    \/ ParsePackageString
    \/ DispatchModule

\* The longest argument of importModules has this many items.
MaxItems == 6

Next ==
    \/ \E b \in Batches : \E mods \in InputsOf(b) : ImportModules(b, mods)
    \/ \E b \in Batches : ChunkSettled(b)
    \/ \E b \in Batches : Returned(b)
    \/ \E n \in Names, ok \in BOOLEAN : ManifestResponse(n, ok)
    \/ \E n \in Names, ok \in BOOLEAN : FallbackResponse(n, ok)
    \/ \E n \in Names : DependenciesSettled(n)
    \/ \E n \in Names, o \in {"neterr", "badcode", "ok"} : EntryResponse(n, o)
    \/ \E b \in Batches, i \in 1 .. MaxItems, ok \in BOOLEAN :
           GitHubManifestResponse(b, i, ok)
    \/ \E b \in Batches, i \in 1 .. MaxItems,
          o \in {"neterr", "empty", "badcode", "ok"} :
           GitHubEntryResponse(b, i, o)
    \/ ClearVirtualModules

Init == ImporterInit /\ FetchInit /\ ParseInit

\* The importer, called with BatchInputs.
Spec == Init /\ [][Next]_vars

\* One fetchWithRetry call, under any options of FetchOptions.
SpecFetch == Init /\ [][NextFetch]_vars

\* One specifier of ParseInputs, parsed and dispatched.
InitParse ==
    /\ ImporterInit
    /\ FetchInit
    /\ input \in ParseInputs
    /\ parsed = NotParsed

SpecParse == InitParse /\ [][NextParse]_vars

\* Every fetch succeeds and every entry file compiles.
Succeeds ==
    \/ \E b \in Batches : ChunkSettled(b)
    \/ \E b \in Batches : Returned(b)
    \/ \E n \in Names : ManifestResponse(n, TRUE)
    \/ \E n \in Names : DependenciesSettled(n)
    \/ \E n \in Names : EntryResponse(n, "ok")
    \/ \E b \in Batches, i \in 1 .. MaxItems : GitHubManifestResponse(b, i, TRUE)
    \/ \E b \in Batches, i \in 1 .. MaxItems : GitHubEntryResponse(b, i, "ok")

NextOk ==
    \/ \E b \in Batches : \E mods \in InputsOf(b) : ImportModules(b, mods)
    \/ Succeeds

\* The event loop runs every callback that is ready, and fetchWithRetry
\* settles every fetch (each request has a timeout, retries are counted).
FairOk ==
    /\ \A b \in Batches : WF_vars(ChunkSettled(b))
    /\ \A n \in Names :
          /\ WF_vars(ManifestResponse(n, TRUE))
          /\ WF_vars(DependenciesSettled(n))
          /\ WF_vars(EntryResponse(n, "ok"))
    /\ \A b \in Batches, i \in 1 .. MaxItems :
          /\ WF_vars(GitHubManifestResponse(b, i, TRUE))
          /\ WF_vars(GitHubEntryResponse(b, i, "ok"))

\* The importer when nothing fails and the cache is never cleared.
SpecOk == Init /\ [][NextOk]_vars /\ FairOk

\* One call with a package that has dependencies and four repositories.
WideInput == << YarnB, GitHubC, GitHubC, GitHubC, GitHubC >>

NextWide ==
    \/ ImportModules(1, WideInput)
    \/ Succeeds

SpecWide == Init /\ [][NextWide]_vars

\* The importer when clearVirtualModules is never called.
NextImports ==
    \/ \E b \in Batches : \E mods \in InputsOf(b) : ImportModules(b, mods)
    \/ \E b \in Batches : ChunkSettled(b)
    \/ \E b \in Batches : Returned(b)
    \/ \E n \in Names, ok \in BOOLEAN : ManifestResponse(n, ok)
    \/ \E n \in Names, ok \in BOOLEAN : FallbackResponse(n, ok)
    \/ \E n \in Names : DependenciesSettled(n)
    \/ \E n \in Names, o \in {"neterr", "badcode", "ok"} : EntryResponse(n, o)
    \/ \E b \in Batches, i \in 1 .. MaxItems, ok \in BOOLEAN :
           GitHubManifestResponse(b, i, ok)
    \/ \E b \in Batches, i \in 1 .. MaxItems,
          o \in {"neterr", "empty", "badcode", "ok"} :
           GitHubEntryResponse(b, i, o)

SpecImports == Init /\ [][NextImports]_vars

NpmW == Specifier("npm", "W", "latest")

\* A package with six dependencies, and the same six packages as the items
\* of a call.
SixLeaves ==
    << Specifier("npm", "L1", "latest"), Specifier("npm", "L2", "latest"),
       Specifier("npm", "L3", "latest"), Specifier("npm", "L4", "latest"),
       Specifier("npm", "L5", "latest"), NpmC >>

GroupInputs == { << NpmW >>, SixLeaves }

\* One call, of registry packages, whose fetches succeed or fail.
NextGroups ==
    \/ \E mods \in GroupInputs : ImportModules(1, mods)
    \/ ChunkSettled(1)
    \/ \E n \in Names, ok \in BOOLEAN : ManifestResponse(n, ok)
    \/ \E n \in Names, ok \in BOOLEAN : FallbackResponse(n, ok)
    \/ \E n \in Names : DependenciesSettled(n)
    \/ \E n \in Names, o \in {"neterr", "badcode", "ok"} : EntryResponse(n, o)

SpecGroups == Init /\ [][NextGroups]_vars

(***************************************************************************)
(* What the properties observe.                                            *)
(***************************************************************************)
\* The items of call b.
ItemsOf(b) == 1 .. Len(batch[b].items)

\* The failures the value returned at line 345 lists: `results` has one key
\* per succeeded item (line 319) and its value is what the import function
\* returned, undefined.
ReportedFailures(results) ==
    {k \in DOMAIN results : results[k] # "undefined"}

\* No resolution began for a name that was registered.
NoReload ==
    /\ \A n \in Names : ~reg[n].reload
    /\ \A b \in Batches : \A i \in ItemsOf(b) : batch[b].items[i].via # "reload"

\* The fetches in flight: importFromRegistry calls awaiting a manifest or an
\* entry file, importFromGitHub calls awaiting either.
OpenFetches ==
    Cardinality({n \in Names : reg[n].pc \in {"manifest", "fallback", "entry"}})
    + Cardinality({bi \in Batches \X (1 .. MaxItems) :
                      /\ bi[2] \in ItemsOf(bi[1])
                      /\ batch[bi[1]].items[bi[2]].pc \in {"ghManifest", "ghEntry"}})

\* Call b is importModules(['A']) and resolves A itself.
CycleCall(b) ==
    /\ batch[b].mods = << NpmA >>
    /\ batch[b].items[1].via = "task"

SixItems == << NpmC, NpmC, NpmC, NpmC, NpmC, NpmC >>

(***************************************************************************)
(* Properties.                                                             *)
(***************************************************************************)
\* C1: importModules never rejects because a member failed: an item of a
\* call is reported failed exactly when its import threw, and when the call
\* returns every item of it has been resolved to succeeded or failed, the
\* succeeded ones under their module name in the results.
C1_FailuresAreIsolated ==
    \A b \in Batches :
       /\ batch[b].status \in {"idle", "running", "done"}
       /\ \A i \in ItemsOf(b) :
             /\ batch[b].items[i].pc \in
                    {"new", "reg", "ghManifest", "ghEntry", "ok", "fail"}
             /\ batch[b].items[i].pc = "fail" <=> i \in batch[b].threw
       /\ batch[b].status = "done" =>
             \A i \in ItemsOf(b) :
                /\ batch[b].items[i].pc \in {"ok", "fail"}
                /\ batch[b].items[i].pc = "ok" =>
                       ModuleName(batch[b].mods[i]) \in DOMAIN batch[b].results

\* A call has returned with one item failed and another one loaded.
C1_Witness ==
    \E b \in Batches :
       /\ batch[b].status = "done"
       /\ \E i, j \in ItemsOf(b) :
             /\ batch[b].items[i].pc = "fail"
             /\ batch[b].items[j].pc = "ok"
             /\ batch[b].items[j].via = "task"

\* C2: the value importModules returns lists every failure of the call: each
\* item whose import threw is in it as a failure.
C2_ReportListsFailures ==
    \A b \in Batches :
       batch[b].status = "done" =>
          \A i \in batch[b].threw :
             ModuleName(batch[b].mods[i]) \in ReportedFailures(batch[b].results)

\* C3 as stated: between two clears every manifest, of a registry package or
\* of a repository, is fetched with success at most once, and no resolution
\* begins for a registered name.
C3_EveryManifestOnce ==
    /\ \A k \in Names \X Versions : manifestFetches.registry[k] <= 1
    /\ \A n \in Names : manifestFetches.github[n] <= 1
    /\ NoReload

\* C3, amended: between two clears the manifest of a registry package
\* name@version is fetched with success at most once, and no resolution
\* begins for a registered name.  (The manifest of a repository is fetched
\* by every importFromGitHub call that finds the name unregistered.)
C3_RegistryManifestOnce ==
    /\ \A k \in Names \X Versions : manifestFetches.registry[k] <= 1
    /\ NoReload

\* The sixth item of a call found C registered and returned at once; the
\* manifest of C@1 has been fetched once.
C3_Witness ==
    \E b \in Batches :
       /\ batch[b].mods = SixItems
       /\ batch[b].items[6].via = "loaded"
       /\ batch[b].items[1].via = "task"
       /\ manifestFetches.registry[CacheKey("C", "1")] = 1
       /\ "C" \in virtualModules

\* C4: when nothing fails, importModules(['A']) with A and B depending on
\* each other returns; when it has, the circular-dependency warning has been
\* logged and A or B is registered.
C4_CycleTerminates ==
    /\ [](\A b \in Batches :
             (CycleCall(b) /\ batch[b].status = "done") =>
                 /\ batch[b].warned # {}
                 /\ {"A", "B"} \cap virtualModules # {})
    /\ (\E b \in Batches : CycleCall(b) /\ batch[b].status = "running")
          ~> (\E b \in Batches : CycleCall(b) /\ batch[b].status = "done")

\* importModules(['A']) has returned: A was found in the in-flight set by
\* its dependency B, and both are registered.
C4_Witness ==
    \E b \in Batches :
       /\ CycleCall(b)
       /\ batch[b].status = "done"
       /\ batch[b].warned = {"A"}
       /\ {"A", "B"} \subseteq virtualModules

\* C5 as stated: when clearVirtualModules returns, the registry, the
\* manifest cache and the in-flight set are empty.
C5_ClearEmptiesAll ==
    [][ClearVirtualModules =>
          /\ virtualModules' = {}
          /\ packageMetadataCache' = {}
          /\ importingDependencies' = {}]_vars

\* C5, amended: when clearVirtualModules returns, the registry, the manifest
\* cache and the failure list are empty and the in-flight set is as it was:
\* it holds the names whose import is suspended, and is empty when no
\* importFromRegistry call is suspended.
C5_ClearKeepsInFlight ==
    /\ [](importingDependencies = {n \in Names : reg[n].pc # "idle"})
    /\ [][ClearVirtualModules =>
             /\ virtualModules' = {}
             /\ packageMetadataCache' = {}
             /\ failedImports' = {}
             /\ importingDependencies' = importingDependencies]_vars

\* The cache was cleared after A's manifest was stored, while A awaits its
\* dependency B: both are still in the in-flight set.
C5_Witness ==
    /\ reg["A"].pc = "deps"
    /\ reg["B"].pc = "manifest"
    /\ packageMetadataCache = {}
    /\ virtualModules = {}
    /\ importingDependencies = {"A", "B"}

\* C6: clearVirtualModules leaves nothing registered and no manifest cached;
\* an import that begins for a name whose manifest is not cached fetches the
\* manifest from the network, and the entry file it then fetches is
\* registered.
C6_ReimportFetchesAgain ==
    [][/\ ClearVirtualModules =>
             (virtualModules' = {} /\ packageMetadataCache' = {})
       /\ \A n \in Names :
             /\ (/\ reg[n].pc = "idle"
                 /\ reg'[n].pc # "idle"
                 /\ CacheKey(n, reg'[n].version) \notin packageMetadataCache')
                   => reg'[n].pc = "manifest"
             /\ EntryResponse(n, "ok") => n \in virtualModules']_vars

\* C was loaded by the first item of a call, the cache was cleared, and the
\* sixth item has fetched the manifest of C@1 again and registered C again.
C6_Witness ==
    \E b \in Batches :
       /\ batch[b].mods = SixItems
       /\ batch[b].items[1].pc = "ok"
       /\ batch[b].items[1].via = "task"
       /\ batch[b].items[6].pc = "ok"
       /\ batch[b].items[6].via = "task"
       /\ manifestFetches.registry[CacheKey("C", "1")] = 1
       /\ "C" \in virtualModules

\* C7: at most MAX_CONCURRENT_DOWNLOADS fetches are in flight.
C7_AtMostFiveFetches == OpenFetches <= MAX_CONCURRENT_DOWNLOADS

\* C8 as stated: a name that is registered or in the failure list stays so,
\* and no resolution begins for it, until clearVirtualModules is called.
C8_LoadedAndFailedAreTerminal ==
    [][\A n \in Names :
          ((n \in virtualModules \/ n \in failedImports)
              /\ ~ClearVirtualModules) =>
             /\ n \in virtualModules => n \in virtualModules'
             /\ n \in failedImports => n \in failedImports'
             /\ reg[n].pc = "idle" => reg'[n].pc = "idle"]_vars

\* C8, amended: a registered name stays registered, and no resolution
\* begins for it, until clearVirtualModules is called.  (A failed name is
\* resolved again by the next import of it, and every importModules call
\* empties the failure list.)
C8_LoadedIsTerminal ==
    /\ [](\A b \in Batches : \A i \in ItemsOf(b) :
             batch[b].items[i].via # "reload")
    /\ [][\A n \in virtualModules :
             ~ClearVirtualModules =>
                /\ n \in virtualModules'
                /\ reg[n].pc = "idle" => reg'[n].pc = "idle"]_vars

\* importFromGitHub found C registered by an earlier call and returned at
\* once.
C8_Witness ==
    \E b \in Batches :
       /\ batch[b].mods = << NpmC, GitHubC >>
       /\ batch[b].items[1].via = "loaded"
       /\ batch[b].items[2].via = "loaded"
       /\ "C" \in virtualModules

\* C9 as stated: when the first two requests fail and the third succeeds,
\* the call returns the third body after waiting at least
\* initialDelay + initialDelay * backoffFactor.
C9_WaitsAtLeastBothDelays ==
    (/\ fetch.status = "resolved"
     /\ fetch.settledBy = 3
     /\ requests[1].state = "failed"
     /\ requests[2].state = "failed")
       => /\ fetch.value = 3
          /\ requests[3].waited >=
                 fetch.options.initialDelay
                 + fetch.options.initialDelay * fetch.options.backoffFactor

\* C9, amended: the call returns the body of the request that succeeds;
\* when two failed attempts led to that request, the waits before it add up
\* to initialDelay + min(initialDelay * backoffFactor, maxDelay).
C9_WaitsBothDelaysCapped ==
    fetch.status = "resolved" =>
       /\ fetch.value = fetch.settledBy
       /\ requests[fetch.settledBy].state = "ok"
       /\ requests[fetch.settledBy].left = fetch.options.retries - 2 =>
             requests[fetch.settledBy].waited =
                 fetch.options.initialDelay
                 + Min(fetch.options.initialDelay * fetch.options.backoffFactor,
                       fetch.options.maxDelay)

\* Two requests failed, the third succeeded, and maxDelay capped the second
\* wait.
C9_Witness ==
    /\ fetch.status = "resolved"
    /\ fetch.settledBy = 3
    /\ Len(requests) = 3
    /\ requests[1].state = "failed"
    /\ requests[2].state = "failed"
    /\ requests[3].left = fetch.options.retries - 2
    /\ fetch.options.maxDelay
          < fetch.options.initialDelay * fetch.options.backoffFactor

\* C10: a call issues at most maxRetries requests, and when it fails the
\* error carries the URL and the status of a failed request.
C10_AtMostMaxRetriesRequests ==
    /\ Len(requests) <= fetch.options.retries
    /\ fetch.status = "rejected" =>
          /\ fetch.error.url = Url
          /\ fetch.error.statusCode = requests[fetch.settledBy].code

\* C11: when the fetched text cannot be parsed, fetchJson fails with an error
\* that is not a NetworkError, and from then on no request is issued for the
\* URL: neither the parse failure nor anything after it starts a request.
C11_ParseFailureEndsRequests ==
    [][/\ (json'.status = "threw" /\ fetch'.status = "resolved") =>
              json'.error.name # "NetworkError"
       /\ (json.status = "threw" /\ fetch.status = "resolved") =>
              Len(requests') = Len(requests)]_vars

\* C12: for a scoped specifier @scope/pkg or @scope/pkg@version,
\* parsePackageString returns the full scoped name '@scope/pkg' as the name,
\* never an empty name, and the version 'latest' or the version given.
C12_ScopedNameIsKept ==
    (parsed.stage # "none" /\ input \in ScopedInputs) =>
        LET at == IndexOf(Tail(input), "@")
            scopedName == IF at = 0 THEN input ELSE SubSeq(input, 1, at)
            given == IF at = 0 THEN Latest ELSE SubSeq(input, at + 2, Len(input))
        IN /\ parsed.result.name = scopedName
           /\ parsed.result.name # << >>
           /\ parsed.result.version \in
                 {given, IF Head(given) \in {"^", "~"} THEN Tail(given) ELSE given}

\* C13: for an unscoped specifier name@version, parsePackageString returns
\* that name, that version without its leading '^' or '~', the source npm
\* and no alias; for a specifier without '@' it returns the whole input as
\* the name and the version 'latest'.
C13_UnscopedParse ==
    (parsed.stage # "none" /\ input \in UnscopedInputs) =>
        LET at == IndexOf(input, "@")
            given == SubSeq(input, at + 1, Len(input))
        IN /\ parsed.result.source = "npm"
           /\ parsed.result.alias = Undefined
           /\ IF at = 0
              THEN /\ parsed.result.name = input
                   /\ parsed.result.version = Latest
              ELSE /\ parsed.result.name = SubSeq(input, 1, at - 1)
                   /\ parsed.result.version =
                         IF Head(given) \in {"^", "~"} THEN Tail(given) ELSE given

\* 'ab@^1' has been parsed to the name 'ab' and the version '1'.
C13_Witness ==
    /\ parsed.stage = "parsed"
    /\ input = << "a", "b", "@", "^", "1" >>
    /\ parsed.result.name = << "a", "b" >>
    /\ parsed.result.version = << "1" >>

\* C14: github:owner/repo and alias@github:owner/repo are dispatched to
\* importFromGitHub with that owner and that repo, never to the registry;
\* alias@source:name with source npm or yarn is dispatched to that registry
\* for that name.
C14_DispatchBySource ==
    (parsed.stage = "dispatched" /\ input \in PrefixedInputs) =>
        LET g == IndexOf(input, "github:")
            at == IndexOf(input, "@")
            ownerRepo == SplitOn(SubSeq(input, g + 1, Len(input)), "/")
        IN IF g # 0
           THEN /\ parsed.dispatch.path = "github"
                /\ parsed.dispatch.owner = ownerRepo[1]
                /\ parsed.dispatch.name = ownerRepo[2]
           ELSE /\ parsed.dispatch.path = "registry"
                /\ parsed.dispatch.source = SourceOf(input[at + 1])
                /\ parsed.dispatch.name = SubSeq(input, at + 2, Len(input))

(***************************************************************************)
(* The patched require (lines 281-288).                                    *)
(***************************************************************************)
\* The names whose path /virtual_modules/<name>.js is a file on disk: the
\* importer compiles from memory (lines 238-249) and writes no file.
FilesOnDisk == {}

\* What require is asked for: a bare name, or the path of a virtual module.
BareName(n) == [kind |-> "name", of |-> n]

VirtualPath(n) == [kind |-> "path", of |-> n]

\* originalRequire, which is Module._load: the file name is resolved on disk
\* first, and only a resolved file name is looked up in require.cache.
OriginalRequire(request) ==
    IF request.kind = "name"
    THEN [outcome |-> "normal resolution", of |-> request.of]
    ELSE IF request.of \notin FilesOnDisk
    THEN [outcome |-> "MODULE_NOT_FOUND", of |-> request.of]
    ELSE IF ModulePath(request.of) \in requireCache
    THEN [outcome |-> "virtual module", of |-> request.of]
    ELSE [outcome |-> "file loaded", of |-> request.of]

\* Lines 283-288.
PatchedRequire(moduleName) ==
    IF moduleName \in virtualModules
    THEN OriginalRequire(VirtualPath(moduleName))
    ELSE OriginalRequire(BareName(moduleName))

\* C15: require of a name that is loaded gives the registered virtual
\* module; require of a name that is not in the registry (never loaded, or
\* dropped by clearVirtualModules) is resolved as without the patch.
C15_RequireResolvesVirtual ==
    /\ \A n \in virtualModules :
          PatchedRequire(n) = [outcome |-> "virtual module", of |-> n]
    /\ \A n \in Names \ virtualModules :
          PatchedRequire(n) = OriginalRequire(BareName(n))

\* C16: when the import of a dependency fails, at any depth, the name is in
\* the failure list, the parent goes on awaiting its other dependencies and
\* no other import changes; a package whose entry file is fetched and
\* compiles is registered whatever became of its dependencies; and an
\* import ends in failure only by the failure of its own manifest fetches
\* or of its own entry file.
C16_DependencyFailureIsIsolated ==
    [][\A n \in Names :
          LET failsNow == \/ FallbackResponse(n, FALSE)
                          \/ EntryResponse(n, "neterr")
                          \/ EntryResponse(n, "badcode")
              p == reg[n].parent.name
          IN /\ (failsNow /\ reg[n].parent.kind = "dep") =>
                    /\ n \in failedImports'
                    /\ p \notin failedImports' \ failedImports
                    /\ reg'[p] = [reg[p] EXCEPT !.pending = @ \ {n}]
                    /\ \A m \in Names \ {n, p} : reg'[m] = reg[m]
                    /\ virtualModules' = virtualModules
                    /\ batch' = batch
             /\ EntryResponse(n, "ok") => n \in virtualModules'
             /\ (reg[n].pc # "idle" /\ reg'[n].pc = "idle") =>
                    (failsNow \/ EntryResponse(n, "ok"))]_vars

\* importModules(['A']) has returned: C, a dependency of B, which is a
\* dependency of A, failed and is in the failure list; B and A are registered.
C16_Witness ==
    /\ batch[1].status = "done"
    /\ batch[1].mods = << NpmA >>
    /\ "C" \in failedImports
    /\ "C" \notin virtualModules
    /\ {"A", "B"} \subseteq virtualModules
    /\ batch[1].threw = {}

RECURSIVE AncestorsOf(_)
\* The packages whose dependency loop (lines 135-151) awaits, directly or
\* through other packages, the import of n.
AncestorsOf(n) ==
    IF reg[n].parent.kind = "dep"
    THEN {reg[n].parent.name} \cup AncestorsOf(reg[n].parent.name)
    ELSE {}

\* C17: only an ancestor of the requesting package is skipped as circular.
\* An item of a call has no ancestor, so none is skipped as circular; and
\* when a package is at its entry file, every dependency of it that is still
\* being resolved is one of its ancestors (or the package itself).
C17_OnlyAncestorsAreSkipped ==
    /\ \A b \in Batches : \A i \in ItemsOf(b) :
          batch[b].items[i].via # "circular"
    /\ \A n \in Names :
          reg[n].pc = "entry" =>
              \A k \in 1 .. Len(Dependencies(n)) :
                  LET d == Dependencies(n)[k].name
                  IN reg[d].pc # "idle" => d \in AncestorsOf(n) \cup {n}

\* C18: the in-flight set holds exactly the names whose importFromRegistry
\* call has begun a resolution and has not ended, by success or by failure;
\* it is empty whenever no importModules call is running.
C18_InFlightWhileResolving ==
    /\ importingDependencies = {n \in Names : reg[n].pc # "idle"}
    /\ (\A b \in Batches : batch[b].status # "running") =>
           importingDependencies = {}

\* importModules(['B', 'C@1']) has returned: B was registered, the import of
\* C threw, A (a dependency of B) failed, and the in-flight set is empty.
C18_Witness ==
    /\ batch[1].status = "done"
    /\ batch[1].mods = << YarnB, NpmC >>
    /\ batch[1].threw = {2}
    /\ "B" \in virtualModules
    /\ "A" \in failedImports
    /\ importingDependencies = {}

\* C19: while a registry package awaits its entry file, every chunk of its
\* dependencies has been dispatched and every import it began for a
\* dependency has ended, by success or by failure.
C19_EntryAfterDependencies ==
    \A p \in Names :
        reg[p].pc = "entry" =>
            /\ reg[p].next >= Len(Dependencies(p))
            /\ reg[p].pending = {}
            /\ \A d \in Names : reg[d].pc # "idle" => reg[d].parent # DepOf(p)

\* importModules(['A']): B, a dependency of A, awaits its entry file after
\* its own dependency C has failed.
C19_Witness ==
    /\ batch[1].mods = << NpmA >>
    /\ reg["B"].pc = "entry"
    /\ reg["B"].parent = DepOf("A")
    /\ reg["C"].pc = "idle"
    /\ "C" \in failedImports
    /\ "C" \notin virtualModules

\* C20: the dependencies of a package, and the items of a call, are
\* dispatched in groups of at most MAX_CONCURRENT_DOWNLOADS: the imports in
\* progress all belong to the group dispatched last, everything before that
\* group has settled and nothing after it has begun; and when a group has
\* settled the next group is dispatched, whether or not an import failed.
C20_GroupsOfFive ==
    /\ [](\A p \in Names :
             LET deps == Dependencies(p)
                 last == (reg[p].next \div MAX_CONCURRENT_DOWNLOADS) - 1
                 Active(k) == /\ reg[deps[k].name].pc # "idle"
                              /\ reg[deps[k].name].parent = DepOf(p)
             IN /\ Cardinality({k \in 1 .. Len(deps) : Active(k)})
                      <= MAX_CONCURRENT_DOWNLOADS
                /\ \A k \in 1 .. Len(deps) :
                      Active(k) => (k - 1) \div MAX_CONCURRENT_DOWNLOADS = last)
    /\ [](\A b \in Batches :
             LET last == (batch[b].next \div MAX_CONCURRENT_DOWNLOADS) - 1
                 group(i) == (i - 1) \div MAX_CONCURRENT_DOWNLOADS
             IN /\ Cardinality({i \in ItemsOf(b) : ItemPending(batch[b].items[i])})
                      <= MAX_CONCURRENT_DOWNLOADS
                /\ \A i \in ItemsOf(b) :
                      /\ ItemPending(batch[b].items[i]) => group(i) = last
                      /\ group(i) < last => batch[b].items[i].pc \in {"ok", "fail"}
                      /\ group(i) > last => batch[b].items[i].pc = "new")
    /\ [][/\ \A p \in Names :
                (/\ DependenciesSettled(p)
                 /\ reg[p].next < Len(Dependencies(p))) =>
                    /\ reg'[p].pc = "deps"
                    /\ reg'[p].next = reg[p].next + MAX_CONCURRENT_DOWNLOADS
                    /\ \A k \in reg[p].next + 1 ..
                                Min(reg'[p].next, Len(Dependencies(p))) :
                          LET d == Dependencies(p)[k].name
                          IN \/ reg'[d].pc # "idle"
                             \/ d \in virtualModules
          /\ \A b \in Batches :
                (/\ ChunkSettled(b)
                 /\ batch[b].next < Len(batch[b].mods)) =>
                    /\ batch'[b].status = "running"
                    /\ \A i \in batch[b].next + 1 ..
                                Min(batch'[b].next, Len(batch[b].mods)) :
                          batch'[b].items[i].pc # "new"]_vars

\* W's first five dependencies have settled, L1 by failing and L2 by being
\* registered, and the sixth, C, is being imported for W.
C20_Witness ==
    /\ reg["W"].pc = "deps"
    /\ reg["W"].next = 2 * MAX_CONCURRENT_DOWNLOADS
    /\ reg["C"].pc = "manifest"
    /\ reg["C"].parent = DepOf("W")
    /\ "L1" \in failedImports
    /\ "L2" \in virtualModules
    /\ \A n \in {"L1", "L2", "L3", "L4", "L5"} : reg[n].pc = "idle"

\* C21: a GitHub import registers the entry file of the first branch, main
\* then master, whose manifest and entry file were both fetched, whatever
\* the content of the file (an empty file included); master is tried only
\* when a fetch of main failed; and the import fails only when a fetch of
\* master failed after main, or when the file does not compile.
C21_FirstBranchWithBoth ==
    [][\A b \in Batches : \A i \in ItemsOf(b) :
          LET it == batch[b].items[i]
              n == batch[b].mods[i].name
              fetchFails == \/ GitHubManifestResponse(b, i, FALSE)
                            \/ GitHubEntryResponse(b, i, "neterr")
          IN /\ (\/ GitHubEntryResponse(b, i, "ok")
                 \/ GitHubEntryResponse(b, i, "empty")) =>
                    /\ batch'[b].items[i].pc = "ok"
                    /\ n \in virtualModules'
             /\ (it.pc \in {"ghManifest", "ghEntry"}
                 /\ batch'[b].items[i].pc = "fail") =>
                    \/ it.branch = "master" /\ fetchFails
                    \/ GitHubEntryResponse(b, i, "badcode")
             /\ (it.pc \in {"ghManifest", "ghEntry"} /\ it.branch = "main"
                 /\ batch'[b].items[i].branch = "master") =>
                    fetchFails]_vars

\* C22: the wait of the k-th retry of a call (the time between the failure
\* and the request the retry makes) is
\* min(initialDelay * backoffFactor^(k-1), maxDelay), for every k and every
\* value of the options; so no wait is longer than maxDelay.
C22_BackoffIsCapped ==
    \A t \in timers :
        LET o == fetch.options
            k == o.retries - t.left
            wait == t.waited - requests[t.from].waited
        IN /\ wait = Min(o.initialDelay * o.backoffFactor ^ (k - 1), o.maxDelay)
           /\ wait <= o.maxDelay

\* C23: when the source fetched for a name does not compile, the import
\* fails, virtualModules and require.cache are as they were, and the name is
\* not registered (a registered name's most recent compile succeeded).
C23_CompileFailureLeavesNoRecord ==
    [][/\ \A n \in Names :
             EntryResponse(n, "badcode") =>
                 /\ virtualModules' = virtualModules
                 /\ requireCache' = requireCache
                 /\ n \in failedImports'
                 /\ n \notin virtualModules'
       /\ \A b \in Batches : \A i \in ItemsOf(b) :
             GitHubEntryResponse(b, i, "badcode") =>
                 /\ virtualModules' = virtualModules
                 /\ requireCache' = requireCache
                 /\ batch'[b].items[i].pc = "fail"
                 /\ batch[b].mods[i].name \notin virtualModules']_vars

\* C24: a name that is registered is not compiled and registered again
\* until clearVirtualModules has removed it: no import, by the registry or
\* by a repository, registers a name that virtualModules already holds.
C24_RegisteredAtMostOnce ==
    [][/\ \A n \in Names :
             EntryResponse(n, "ok") => n \notin virtualModules
       /\ \A b \in Batches : \A i \in ItemsOf(b) :
             GitHubEntryResponse(b, i, "ok") =>
                 batch[b].mods[i].name \notin virtualModules]_vars

\* C25: when importModules has returned (and clearVirtualModules was not
\* called), every item it counts as succeeded has its name registered, and
\* no module name is counted as succeeded for one item and as failed for
\* another item of the call.
C25_SucceededMeansRegistered ==
    \A b \in Batches :
        batch[b].status = "done" =>
            /\ \A i \in ItemsOf(b) :
                  batch[b].items[i].pc = "ok" =>
                      batch[b].mods[i].name \in virtualModules
            /\ \A i, j \in ItemsOf(b) :
                  ~(/\ batch[b].items[i].pc = "ok"
                    /\ batch[b].items[j].pc = "fail"
                    /\ ModuleName(batch[b].mods[i]) = ModuleName(batch[b].mods[j]))

\* C26: importFromRegistry tests and extends the in-flight set in one
\* synchronous step, so at most one resolution of a name is in progress:
\* every caller that awaits the resolution of a name (an item of a call, or
\* a package of which it is a dependency) is the one caller that began the
\* resolution being in progress, and a name is in the in-flight set exactly
\* when that caller awaits it.
C26_OneResolutionPerName ==
    /\ \A b \in Batches : \A i \in ItemsOf(b) :
          batch[b].items[i].pc = "reg" =>
              /\ batch[b].mods[i].name \in importingDependencies
              /\ reg[batch[b].mods[i].name].parent = Top(b, i)
    /\ \A p \in Names : \A n \in reg[p].pending :
          /\ n \in importingDependencies
          /\ reg[n].parent = DepOf(p)
    /\ \A n \in importingDependencies :
          LET awaiter == reg[n].parent
          IN \/ /\ awaiter.kind = "top"
                /\ batch[awaiter.b].items[awaiter.i].pc = "reg"
                /\ batch[awaiter.b].mods[awaiter.i].name = n
             \/ /\ awaiter.kind = "dep"
                /\ n \in reg[awaiter.name].pending

\* Six items name C: the first resolves it, the next four found it in the
\* in-flight set and returned, the sixth awaits its chunk.
C26_Witness ==
    /\ batch[1].mods = SixItems
    /\ batch[1].items[1].pc = "reg"
    /\ \A i \in 2 .. 5 : batch[1].items[i].via = "circular"
    /\ batch[1].items[6].pc = "new"
    /\ importingDependencies = {"C"}

\* Lines 260-266: listVirtualModules(), the entries {name, path, loaded}.
listVirtualModules ==
    { [name |-> n, path |-> ModulePath(n),
       loaded |-> ModulePath(n) \in requireCache] : n \in virtualModules }

\* C27: every entry of listVirtualModules() has loaded = true and the path
\* /virtual_modules/<name>.js; a name is registered exactly when a compiled
\* module is in require.cache under that path; and the list is empty when
\* clearVirtualModules returns.
C27_ListedMeansLoaded ==
    /\ [](\A e \in listVirtualModules :
             /\ e.loaded
             /\ e.path = << "/virtual_modules/", e.name, ".js" >>)
    /\ [](\A n \in Names :
             n \in virtualModules
                <=> << "/virtual_modules/", n, ".js" >> \in requireCache)
    /\ [][ClearVirtualModules =>
             (listVirtualModules' = {} /\ requireCache' = {})]_vars

\* The cache was cleared while B awaited its entry file, and B was then
\* registered: it is the one entry of the list, and no manifest is cached.
C27_Witness ==
    /\ virtualModules = {"B"}
    /\ packageMetadataCache = {}
    /\ listVirtualModules =
          { [name |-> "B", path |-> << "/virtual_modules/", "B", ".js" >>,
             loaded |-> TRUE] }

====
